---------------------------- MODULE Spec2Model ----------------------------
(***************************************************************************)
(* A model of csp.py: the CSP construction API, the AC-3 engine            *)
(* (inference / revise) and the recursive backtracking search with the     *)
(* minimum-remaining-values heuristic.                                     *)
(*                                                                         *)
(* Python objects that are mutated in place are modelled with a heap of    *)
(* list objects: a dictionary of domains (self.domains, an assignment)     *)
(* maps each variable name to the identity of a list, and `heap` maps a    *)
(* list identity to the list's current contents.  copy.deepcopy allocates  *)
(* new lists; list.remove changes a list in place.                         *)
(***************************************************************************)
EXTENDS Integers, Sequences, FiniteSets, TLC

(***************************************************************************)
(* Bounds of the model.                                                    *)
(***************************************************************************)
\* values of a generic variable are 1..MaxVal
MaxVal == 3
\* create_queen_csp(n) is called with n in 1..MaxQueens
MaxQueens == 4
\* the map-colouring builder is run with the first 1..MaxColours colours
MaxColours == 3

\* names given to add_variable, in the order in which they are declared
VarNames == <<"A", "B">>
\* the k-th variable is declared with the k-th name; the first one may instead
\* be given the empty string, a name that Python's `not` takes for false (as it
\* does the name 0)
NameChoices(k) == IF k = 1 THEN {VarNames[k], ""} ELSE {VarNames[k]}
\* the filter functions handed to add_constraint_one_way
Preds == {"ne", "eq", "lt", "gt"}
\* "Q" + str(x)
QueenNames == <<"Q0", "Q1", "Q2", "Q3", "Q4", "Q5">>
\* the three mutually adjacent states of the map, and the colours
MapStates == <<"WA", "NT", "SA">>
MapEdges == <<<<"SA", "WA">>, <<"SA", "NT">>, <<"NT", "WA">>>>
MapColours == <<"red", "green", "blue", "yellow">>

VARIABLES
    variables,      \* self.variables: the declared names, in order
    domains,        \* self.domains: name -> identity of the list of legal values
    constraints,    \* self.constraints: name -> (name -> set of legal value pairs)
    heap,           \* list identity -> contents of that list object
    keyOrder,       \* the order in which a dictionary yields its keys
    b_counter,      \* self.b_counter
    f_counter,      \* self.f_counter
    pc,             \* where the program is
    stack,          \* the call stack of backtracking_search / backtrack
    queue,          \* the arc queue of the running inference call
    initQueue,      \* the queue as it was handed to the last inference call
    enqueued,       \* the arcs handed to or appended by that inference call
    retval,         \* the value returned by the call that returned last
    result          \* what backtracking_search returned

vars == <<variables, domains, constraints, heap, keyOrder, b_counter, f_counter,
          pc, stack, queue, initQueue, enqueued, retval, result>>

(***************************************************************************)
(* Generic helpers.                                                        *)
(***************************************************************************)
Range(s) == {s[k] : k \in 1..Len(s)}

Max(S) == IF S = {} THEN 0 ELSE CHOOSE m \in S : \A k \in S : k <= m

Abs(n) == IF n < 0 THEN -n ELSE n

Restrict(f, S) == [x \in S |-> f[x]]

\* the values of a dictionary
Values(f) == {f[x] : x \in DOMAIN f}

\* an empty dictionary
EmptyDict == [x \in {} |-> 0]

\* the ascending sequence of a set of integers
RECURSIVE Ascending(_)
Ascending(S) ==
    IF S = {} THEN <<>>
    ELSE LET m == CHOOSE k \in S : \A o \in S : k <= o
         IN <<m>> \o Ascending(S \ {m})

\* all orderings of a set
RECURSIVE Perms(_)
Perms(S) ==
    IF S = {} THEN {<<>>}
    ELSE UNION {{<<x>> \o p : p \in Perms(S \ {x})} : x \in S}

\* position of a name in a sequence (0 when absent)
Pos(s, x) == IF x \in Range(s) THEN CHOOSE k \in 1..Len(s) : s[k] = x ELSE 0

\* keys of a dictionary in the order in which iterating it yields them
KeysInOrder(order, keys) == SelectSeq(order, LAMBDA k : k \in keys)

\* list.pop(0) in place of list.remove(x): drop the first element
RemoveFirst_Head(s, x) == Tail(s)

\* list.remove(x): drop the first occurrence of x
RemoveFirst(s, x) ==
    LET k == CHOOSE n \in 1..Len(s) : s[n] = x /\ \A m \in 1..(n - 1) : s[m] # x
    IN SubSeq(s, 1, k - 1) \o SubSeq(s, k + 1, Len(s))

\* the contents of the lists a dictionary of domains refers to
Contents(h, a) == [v \in DOMAIN a |-> h[a[v]]]

(***************************************************************************)
(* The construction API.                                                   *)
(***************************************************************************)
\* filter_function(x, y) for the lambdas the builders pass
Apply(f, x, y) ==
    CASE f = "ne" -> x # y
      [] f = "eq" -> x = y
      [] f = "lt" -> x < y
      [] f = "gt" -> x > y

\* itertools.product(a, b) of two lists, as the set of pairs it yields
get_all_possible_pairs(a, b) == {<<a[m], b[n]>> : m \in 1..Len(a), n \in 1..Len(b)}

\* the filter applied to the full product at every call, whether or not a table
\* is stored already
OneWay_FromProduct(cons, h, doms, i, j, f) ==
    LET start == get_all_possible_pairs(h[doms[i]], h[doms[j]])
        kept == {p \in start : Apply(f, p[1], p[2])}
    IN [cons EXCEPT ![i] = [k \in (DOMAIN cons[i]) \cup {j} |->
                               IF k = j THEN kept ELSE cons[i][k]]]

\* the constraint table after add_constraint_one_way(i, j, f)
OneWay(cons, h, doms, i, j, f) ==
    LET start == IF j \in DOMAIN cons[i] THEN cons[i][j]
                 ELSE get_all_possible_pairs(h[doms[i]], h[doms[j]])
        kept == {p \in start : Apply(f, p[1], p[2])}
    IN [cons EXCEPT ![i] = [k \in (DOMAIN cons[i]) \cup {j} |->
                               IF k = j THEN kept ELSE cons[i][k]]]

\* the constraint table after the calls add_constraint_one_way(i, j, f) for the
\* pairs of `pairs`, in order
RECURSIVE OneWayAll(_, _, _, _, _)
OneWayAll(cons, h, doms, pairs, f) ==
    IF pairs = <<>> THEN cons
    ELSE OneWayAll(OneWay(cons, h, doms, pairs[1][1], pairs[1][2], f),
                   h, doms, Tail(pairs), f)

\* itertools.combinations in place of itertools.product: each pair once
DistinctPairs_Forward(vs) ==
    LET n == Len(vs)
        all == [k \in 1..(n * n) |-> <<vs[((k - 1) \div n) + 1], vs[((k - 1) % n) + 1]>>]
    IN SelectSeq(all, LAMBDA p : Pos(vs, p[1]) < Pos(vs, p[2]))

\* the pairs (i, j), i != j, that itertools.product(vs, vs) yields, in order
DistinctPairs(vs) ==
    LET n == Len(vs)
        all == [k \in 1..(n * n) |-> <<vs[((k - 1) \div n) + 1], vs[((k - 1) % n) + 1]>>]
    IN SelectSeq(all, LAMBDA p : p[1] # p[2])

\* x.split(",")[0], x.split(",")[1] of the cell "x,y", read as integers
Cell(x, y) == <<x, y>>
RowOf(c) == c[1]
ColOf(c) == c[2]
\* abs() of a Python bool
AbsBool(b) == IF b THEN 1 ELSE 0

\* the test of the columns left out
queenCollision_NoColumn(x, y) ==
    IF RowOf(x) = RowOf(y) THEN TRUE
    ELSE IF AbsBool(RowOf(x) - RowOf(y) = Abs(ColOf(x) - ColOf(y))) # 0 THEN TRUE
    ELSE FALSE

queenCollision(x, y) ==
    IF RowOf(x) = RowOf(y) \/ ColOf(x) = ColOf(y) THEN TRUE
    ELSE IF AbsBool(RowOf(x) - RowOf(y) = Abs(ColOf(x) - ColOf(y))) # 0 THEN TRUE
    ELSE FALSE

Init ==
    /\ variables = <<>>
    /\ domains = EmptyDict
    /\ constraints = EmptyDict
    /\ heap = EmptyDict
    /\ keyOrder = <<>>
    /\ b_counter = 0
    /\ f_counter = 0
    /\ pc = "build"
    /\ stack = <<>>
    /\ queue = <<>>
    /\ initQueue = <<>>
    /\ enqueued = {}
    /\ retval = [ok |-> FALSE, assignment |-> EmptyDict]
    /\ result = [ok |-> FALSE, assignment |-> EmptyDict]

solverIdle == UNCHANGED <<keyOrder, b_counter, f_counter, stack, queue, initQueue,
                          enqueued, retval, result>>

\* the ascending lists of values a generic variable is declared with
DomainChoices == {Ascending(S) : S \in SUBSET (1..MaxVal)}

add_variable(name, domain) ==
    /\ pc = "build"
    /\ name \notin Range(variables)
    /\ LET id == Max(DOMAIN heap) + 1
       IN /\ variables' = Append(variables, name)
          /\ heap' = [k \in (DOMAIN heap) \cup {id} |->
                         IF k = id THEN domain ELSE heap[k]]
          /\ domains' = [v \in (DOMAIN domains) \cup {name} |->
                            IF v = name THEN id ELSE domains[v]]
          /\ constraints' = [v \in (DOMAIN constraints) \cup {name} |->
                                IF v = name THEN EmptyDict ELSE constraints[v]]
    /\ pc' = pc
    /\ solverIdle

add_constraint_one_way(i, j, f) ==
    /\ pc = "build"
    /\ i \in Range(variables) /\ j \in Range(variables) /\ i # j
    /\ constraints' = OneWay(constraints, heap, domains, i, j, f)
    /\ UNCHANGED <<variables, domains, heap, pc>>
    /\ solverIdle

add_all_different_constraint(vs) ==
    /\ pc = "build"
    /\ constraints' = OneWayAll(constraints, heap, domains, DistinctPairs(vs), "ne")
    /\ UNCHANGED <<variables, domains, heap, pc>>
    /\ solverIdle


\* create_queen_csp(n): one variable per row, tables computed with queenCollision
create_queen_csp(n) ==
    /\ pc = "build"
    /\ variables = <<>>
    /\ LET names == SubSeq(QueenNames, 1, n)
           possible == {Cell(x, y) : x \in 0..(n - 1), y \in 0..(n - 1)}
           domain(x) == [i \in 1..n |-> Cell(x, i - 1)]
       IN /\ variables' = names
          /\ heap' = [k \in 1..n |-> domain(k - 1)]
          /\ domains' = [v \in Range(names) |-> Pos(names, v)]
          /\ constraints' =
                [var \in Range(names) |->
                    [var2 \in Range(names) \ {var} |->
                        {dp \in Range(domain(Pos(names, var) - 1)) \X possible :
                            ~queenCollision(dp[1], dp[2])}]]
    /\ pc' = "built"
    /\ solverIdle

\* create_map_coloring_csp for the three mutually adjacent states and the first
\* k colours: every edge is installed in both directions
create_map_coloring_csp(k) ==
    /\ pc = "build"
    /\ variables = <<>>
    /\ LET n == Len(MapStates)
           colors == SubSeq(MapColours, 1, k)
           h == [id \in 1..n |-> colors]
           doms == [v \in Range(MapStates) |-> Pos(MapStates, v)]
           empty == [v \in Range(MapStates) |-> EmptyDict]
           calls == [m \in 1..(2 * Len(MapEdges)) |->
                        LET e == MapEdges[(m + 1) \div 2]
                        IN IF m % 2 = 1 THEN e ELSE <<e[2], e[1]>>]
       IN /\ variables' = MapStates
          /\ heap' = h
          /\ domains' = doms
          /\ constraints' = OneWayAll(empty, h, doms, calls, "ne")
    /\ pc' = "built"
    /\ solverIdle

(***************************************************************************)
(* The solver.                                                             *)
(***************************************************************************)
\* None and False, the values select_minimum_remaining_variable tests with `not`
NoVar == ""
Falsy(x) == x = ""

\* the value False returned by inference or backtrack, True returned by
\* inference, and a dictionary returned by backtrack
PyFalse == [ok |-> FALSE, assignment |-> EmptyDict]
PyTrue == [ok |-> TRUE, assignment |-> EmptyDict]
Returned(a) == [ok |-> TRUE, assignment |-> a]
\* `if result is True:` in place of `if result:`
Truthy_IsTrue(r) == r = PyTrue
\* `if result:` a dictionary is true when it is not empty
Truthy(r) == r.ok /\ DOMAIN r.assignment # {}

get_all_arcs(order) ==
    LET keys == KeysInOrder(order, DOMAIN constraints)
        RECURSIVE arcsFrom(_)
        arcsFrom(m) ==
            IF m > Len(keys) THEN <<>>
            ELSE LET i == keys[m]
                     js == KeysInOrder(order, DOMAIN constraints[i])
                 IN [n \in 1..Len(js) |-> <<i, js[n]>>] \o arcsFrom(m + 1)
    IN arcsFrom(1)

\* an arc from every other variable, constrained with var or not
get_all_neighboring_arcs_AllVars(var) ==
    LET is == KeysInOrder(keyOrder, DOMAIN constraints \ {var})
    IN [n \in 1..Len(is) |-> <<is[n], var>>]

get_all_neighboring_arcs(var) ==
    LET is == KeysInOrder(keyOrder, DOMAIN constraints[var])
    IN [n \in 1..Len(is) |-> <<is[n], var>>]

\* copy.copy(a): a new dictionary that refers to the same lists
DeepCopy_Shallow(h, a) == [heap |-> h, dict |-> a]

\* copy.deepcopy(a): every list of the dictionary is copied into a new list
DeepCopy(h, a) ==
    LET base == Max(DOMAIN h)
        n == Len(variables)
    IN [heap |-> [k \in (DOMAIN h) \cup ((base + 1)..(base + n)) |->
                     IF k \in DOMAIN h THEN h[k] ELSE h[a[variables[k - base]]]],
        dict |-> [v \in DOMAIN a |-> base + Pos(variables, v)]]

\* a[var] = a[var] + [value]: the value is added to the list it came from
Narrow_Append(h, a, var, value) ==
    LET id == Max(DOMAIN h) + 1
    IN [heap |-> [k \in (DOMAIN h) \cup {id} |->
                     IF k = id THEN Append(h[a[var]], value) ELSE h[k]],
        dict |-> [a EXCEPT ![var] = id]]

\* a[var] = [value]: the dictionary entry is bound to a new one-element list
Narrow(h, a, var, value) ==
    LET id == Max(DOMAIN h) + 1
    IN [heap |-> [k \in (DOMAIN h) \cup {id} |-> IF k = id THEN <<value>> ELSE h[k]],
        dict |-> [a EXCEPT ![var] = id]]

\* len(value) < minimum, where minimum = -1 stands for float("inf")
BelowMinimum(len, minimum) == minimum = -1 \/ len < minimum

RECURSIVE MRVScan(_, _, _, _, _)
MRVScan(h, a, keys, minimum, min_variable) ==
    IF keys = <<>> THEN min_variable
    ELSE LET value == h[a[Head(keys)]]
         IN IF Len(value) > 1 /\ BelowMinimum(Len(value), minimum)
            THEN MRVScan(h, a, Tail(keys), Len(value), Head(keys))
            ELSE MRVScan(h, a, Tail(keys), minimum, min_variable)

select_minimum_remaining_variable(h, a) ==
    LET min_variable == MRVScan(h, a, KeysInOrder(keyOrder, DOMAIN a), -1, NoVar)
    IN IF Falsy(min_variable) THEN NoVar ELSE min_variable

\* the loop of revise: `it` is the position of the list iterator over
\* assignment[i], which advances by one after every value it yields, also after
\* that value was removed from the list
RECURSIVE ReviseLoop(_, _, _, _, _, _)
ReviseLoop(h, a, i, j, it, revised) ==
    LET li == h[a[i]]
        lj == h[a[j]]
    IN IF it > Len(li) THEN [heap |-> h, revised |-> revised, error |-> FALSE]
       ELSE IF lj # <<>> /\ j \notin DOMAIN constraints[i]
       THEN [heap |-> h, revised |-> revised, error |-> TRUE]
       ELSE LET x == li[it]
                satisfiable == \E n \in 1..Len(lj) : <<x, lj[n]>> \in constraints[i][j]
            IN IF satisfiable THEN ReviseLoop(h, a, i, j, it + 1, revised)
               ELSE ReviseLoop([h EXCEPT ![a[i]] = RemoveFirst(li, x)],
                               a, i, j, it + 1, TRUE)

revise(h, a, i, j) == ReviseLoop(h, a, i, j, 1, FALSE)

\* line 177, `neighbor == j`: neighbor is the arc (k, i), a tuple, and j is a
\* variable name, so the comparison is never true
NeighborIsJ(neighbor, j) == FALSE

\* the test for an emptied domain left out
InferenceStep_NoEmptyCheck(h, a, q) ==
    LET i == Head(q)[1]
        j == Head(q)[2]
        r == revise(h, a, i, j)
        more == SelectSeq(get_all_neighboring_arcs(i), LAMBDA nb : ~NeighborIsJ(nb, j))
    IN IF r.error THEN [heap |-> r.heap, queue |-> Tail(q), status |-> "error", appended |-> <<>>]
       ELSE IF r.revised
       THEN [heap |-> r.heap, queue |-> Tail(q) \o more, status |-> "run", appended |-> more]
       ELSE [heap |-> r.heap, queue |-> Tail(q), status |-> "run", appended |-> <<>>]

\* the neighbouring arcs appended whether or not revise removed a value
InferenceStep_AlwaysEnqueue(h, a, q) ==
    LET i == Head(q)[1]
        j == Head(q)[2]
        r == revise(h, a, i, j)
        more == SelectSeq(get_all_neighboring_arcs(i), LAMBDA nb : ~NeighborIsJ(nb, j))
    IN IF r.error THEN [heap |-> r.heap, queue |-> Tail(q), status |-> "error", appended |-> <<>>]
       ELSE IF r.revised /\ Len(r.heap[a[i]]) = 0
       THEN [heap |-> r.heap, queue |-> Tail(q), status |-> "false", appended |-> <<>>]
       ELSE [heap |-> r.heap, queue |-> Tail(q) \o more, status |-> "run", appended |-> more]

\* one iteration of the while loop of inference
InferenceStep(h, a, q) ==
    LET i == Head(q)[1]
        j == Head(q)[2]
        r == revise(h, a, i, j)
        more == SelectSeq(get_all_neighboring_arcs(i), LAMBDA nb : ~NeighborIsJ(nb, j))
    IN IF r.error THEN [heap |-> r.heap, queue |-> Tail(q), status |-> "error", appended |-> <<>>]
       ELSE IF r.revised /\ Len(r.heap[a[i]]) = 0
       THEN [heap |-> r.heap, queue |-> Tail(q), status |-> "false", appended |-> <<>>]
       ELSE IF r.revised
       THEN [heap |-> r.heap, queue |-> Tail(q) \o more, status |-> "run", appended |-> more]
       ELSE [heap |-> r.heap, queue |-> Tail(q), status |-> "run", appended |-> <<>>]

\* the list identities still referred to
Live(doms, stk, rv, res) ==
    Values(doms) \cup Values(rv.assignment) \cup Values(res.assignment)
    \cup UNION {Values(stk[k].assignment) \cup Values(stk[k].new_assignment) : k \in 1..Len(stk)}

\* the frame on top of the call stack, and the dictionary its inference call
\* works on: backtracking_search passes `assignment`, backtrack `new_assignment`
Top == stack[Len(stack)]
Target(fr) == IF fr.kind = "search" THEN fr.assignment ELSE fr.new_assignment

Frame(kind, a, var, h) ==
    [kind |-> kind, assignment |-> a, var |-> var, it |-> 1,
     new_assignment |-> EmptyDict, entry |-> Contents(h, a)]

buildIdle == UNCHANGED <<variables, domains, constraints>>

\* lines 86-90: the deep copy of self.domains and the call of inference on all arcs
backtracking_search(order) ==
    /\ pc \in {"build", "built"}
    /\ keyOrder' = order
    /\ LET c == DeepCopy(heap, domains)
       IN /\ heap' = c.heap
          /\ stack' = <<Frame("search", c.dict, NoVar, c.heap)>>
    /\ queue' = get_all_arcs(order)
    /\ initQueue' = queue'
    /\ enqueued' = Range(queue')
    /\ pc' = "infer"
    /\ UNCHANGED <<b_counter, f_counter, retval, result>>
    /\ buildIdle

\* lines 170-178: one arc is taken from the queue and revised
inference_step ==
    /\ pc = "infer"
    /\ queue # <<>>
    /\ LET s == InferenceStep(heap, Target(Top), queue)
       IN /\ heap' = s.heap
          /\ queue' = s.queue
          /\ enqueued' = enqueued \cup Range(s.appended)
          /\ pc' = CASE s.status = "error" -> "error"
                     [] s.status = "false" -> "inferred"
                     [] OTHER -> "infer"
          /\ retval' = IF s.status = "false" THEN PyFalse ELSE retval
    /\ UNCHANGED <<keyOrder, b_counter, f_counter, stack, initQueue, result>>
    /\ buildIdle

\* line 179: the queue is empty
inference_return ==
    /\ pc = "infer"
    /\ queue = <<>>
    /\ pc' = "inferred"
    /\ retval' = PyTrue
    /\ UNCHANGED <<heap, keyOrder, b_counter, f_counter, stack, queue, initQueue,
                   enqueued, result>>
    /\ buildIdle

\* lines 93 and 127, then 119-122: backtrack is called on the dictionary inference
\* worked on; it returns that dictionary when no variable is selected
backtrack_call ==
    /\ pc = "inferred"
    /\ Top.kind = "search" \/ retval.ok
    /\ b_counter' = b_counter + 1
    /\ LET a == Target(Top)
           var == select_minimum_remaining_variable(heap, a)
       IN IF Falsy(var)
          THEN /\ retval' = Returned(a)
               /\ pc' = "returned"
               /\ stack' = stack
          ELSE /\ retval' = PyFalse
               /\ pc' = "loop"
               /\ stack' = Append(stack, Frame("backtrack", a, var, heap))
    /\ UNCHANGED <<heap, keyOrder, f_counter, queue, initQueue, enqueued, result>>
    /\ buildIdle

\* line 126 is false: the next value of the loop
inference_failed ==
    /\ pc = "inferred"
    /\ Top.kind = "backtrack" /\ ~retval.ok
    /\ LET stk == [stack EXCEPT ![Len(stack)].it = @ + 1,
                                ![Len(stack)].new_assignment = EmptyDict]
       IN /\ stack' = stk
          /\ heap' = Restrict(heap, Live(domains, stk, retval, result))
    /\ pc' = "loop"
    /\ UNCHANGED <<keyOrder, b_counter, f_counter, queue, initQueue, enqueued,
                   retval, result>>
    /\ buildIdle

\* lines 123-126: the next value of assignment[var] is tried on a deep copy
backtrack_try ==
    /\ pc = "loop"
    /\ Top.it <= Len(heap[Top.assignment[Top.var]])
    /\ LET value == heap[Top.assignment[Top.var]][Top.it]
           c == DeepCopy(heap, Top.assignment)
           n == Narrow(c.heap, c.dict, Top.var, value)
           stk == [stack EXCEPT ![Len(stack)].new_assignment = n.dict]
       IN /\ stack' = stk
          /\ heap' = Restrict(n.heap, Live(domains, stk, retval, result))
    /\ queue' = get_all_neighboring_arcs(Top.var)
    /\ initQueue' = queue'
    /\ enqueued' = Range(queue')
    /\ pc' = "infer"
    /\ UNCHANGED <<keyOrder, b_counter, f_counter, retval, result>>
    /\ buildIdle

\* the return of False without the increment of line 130
backtrack_fail_NoCount ==
    /\ pc = "loop"
    /\ Top.it > Len(heap[Top.assignment[Top.var]])
    /\ f_counter' = f_counter
    /\ retval' = PyFalse
    /\ LET stk == SubSeq(stack, 1, Len(stack) - 1)
       IN /\ stack' = stk
          /\ heap' = Restrict(heap, Live(domains, stk, retval', result))
    /\ pc' = "returned"
    /\ UNCHANGED <<keyOrder, b_counter, queue, initQueue, enqueued, result>>
    /\ buildIdle

\* lines 130-131: no value is left
backtrack_fail ==
    /\ pc = "loop"
    /\ Top.it > Len(heap[Top.assignment[Top.var]])
    /\ f_counter' = f_counter + 1
    /\ retval' = PyFalse
    /\ LET stk == SubSeq(stack, 1, Len(stack) - 1)
       IN /\ stack' = stk
          /\ heap' = Restrict(heap, Live(domains, stk, retval', result))
    /\ pc' = "returned"
    /\ UNCHANGED <<keyOrder, b_counter, queue, initQueue, enqueued, result>>
    /\ buildIdle

\* lines 127-129: the recursive call has returned to the loop of its caller
backtrack_resume ==
    /\ pc = "returned"
    /\ Top.kind = "backtrack"
    /\ IF Truthy(retval)
       THEN /\ LET stk == SubSeq(stack, 1, Len(stack) - 1)
               IN /\ stack' = stk
                  /\ heap' = Restrict(heap, Live(domains, stk, retval, result))
            /\ pc' = "returned"
       ELSE /\ LET stk == [stack EXCEPT ![Len(stack)].it = @ + 1,
                                        ![Len(stack)].new_assignment = EmptyDict]
               IN /\ stack' = stk
                  /\ heap' = Restrict(heap, Live(domains, stk, retval, result))
            /\ pc' = "loop"
    /\ UNCHANGED <<keyOrder, b_counter, f_counter, queue, initQueue, enqueued,
                   retval, result>>
    /\ buildIdle

\* line 93: backtracking_search returns what backtrack returned
search_return ==
    /\ pc = "returned"
    /\ Top.kind = "search"
    /\ result' = retval
    /\ stack' = <<>>
    /\ heap' = Restrict(heap, Live(domains, <<>>, retval, retval))
    /\ pc' = "done"
    /\ UNCHANGED <<keyOrder, b_counter, f_counter, queue, initQueue, enqueued, retval>>
    /\ buildIdle

Next ==
    \/ \E d \in DomainChoices :
          /\ Len(variables) < Len(VarNames)
          /\ \E name \in NameChoices(Len(variables) + 1) : add_variable(name, d)
    \/ \E i \in Range(variables), j \in Range(variables), f \in Preds :
          add_constraint_one_way(i, j, f)
    \/ \E vs \in Perms(Range(variables)) :
          Len(vs) >= 2 /\ add_all_different_constraint(vs)
    \/ \E n \in 1..MaxQueens : create_queen_csp(n)
    \/ \E k \in 1..MaxColours : create_map_coloring_csp(k)
    \/ \E order \in Perms(Range(variables)) : backtracking_search(order)
    \/ inference_step
    \/ inference_return
    \/ backtrack_call
    \/ inference_failed
    \/ backtrack_try
    \/ backtrack_fail
    \/ backtrack_resume
    \/ search_return

Spec == Init /\ [][Next]_vars

\* the steps of the solver: a sequential program that always takes its next step
Solve ==
    \/ inference_step
    \/ inference_return
    \/ backtrack_call
    \/ inference_failed
    \/ backtrack_try
    \/ backtrack_fail
    \/ backtrack_resume
    \/ search_return

SpecFair == Spec /\ WF_vars(Solve)

\* the whole of inference(assignment, queue), run to its return
RECURSIVE inference(_, _, _)
inference(h, a, q) ==
    IF q = <<>> THEN [heap |-> h, status |-> "true"]
    ELSE LET s == InferenceStep(h, a, q)
         IN IF s.status = "run" THEN inference(s.heap, a, s.queue)
            ELSE [heap |-> s.heap, status |-> s.status]

(***************************************************************************)
(* Vocabulary of the properties.                                           *)
(***************************************************************************)
Done == pc = "done"
Searching == pc \notin {"build", "built"}

\* constraint(i, j) is keyed exactly when constraint(j, i) is
BothWays ==
    \A i \in DOMAIN constraints : \A j \in DOMAIN constraints[i] :
        i \in DOMAIN constraints[j]

\* no variable was declared with an empty list of values
DeclaredNonEmpty == \A v \in DOMAIN domains : heap[domains[v]] # <<>>

\* the returned dictionary, as lists of values
Sol == Contents(heap, result.assignment)

AllSingle == \A v \in DOMAIN Sol : Len(Sol[v]) = 1

SolutionValid ==
    \A i \in DOMAIN constraints : \A j \in DOMAIN constraints[i] :
        /\ Len(Sol[i]) = 1
        /\ Len(Sol[j]) = 1
        /\ <<Sol[i][1], Sol[j][1]>> \in constraints[i][j]

\* inference has just returned True to the frame on top of the stack
InferenceSucceeded == pc = "inferred" /\ retval.ok

\* every value of domain(i) has a support in domain(j) under constraint(i, j)
ArcConsistent(h, a, i, j) ==
    \A m \in 1..Len(h[a[i]]) : \E n \in 1..Len(h[a[j]]) :
        <<h[a[i]][m], h[a[j]][n]>> \in constraints[i][j]

\* s holds no value that t does not hold, and is no longer than t
Narrowed(s, t) == Len(s) <= Len(t) /\ Range(s) \subseteq Range(t)

IsQueens(n) == variables = SubSeq(QueenNames, 1, n)
IsMap(k) == variables = MapStates /\ Len(heap[domains[MapStates[1]]]) = k

(***************************************************************************)
(* C1                                                                      *)
(***************************************************************************)
\* C1: with constraints keyed in both directions, backtracking_search returns
\* False or a dictionary in which every variable's list holds exactly one value;
\* it never returns a dictionary with an empty list.
C1_SingletonsOrFalse == Done /\ BothWays /\ DeclaredNonEmpty /\ result.ok => AllSingle

(***************************************************************************)
(* C2                                                                      *)
(***************************************************************************)
\* C2: in a returned solution, for every keyed pair (i, j) the pair of the single
\* values of i and j is a member of constraint(i, j), whatever the tables are.
\* (Stated for the returned dictionaries that hold one value per variable.)
C2_SolutionValid ==
    Done /\ BothWays /\ DeclaredNonEmpty /\ result.ok /\ AllSingle => SolutionValid

(***************************************************************************)
(* C3                                                                      *)
(***************************************************************************)
\* C3: for create_queen_csp(4) and every key order, the search returns a solution
\* in which no two queens share a row, a column or a diagonal.
C3_FourQueens ==
    IsQueens(4) =>
        /\ pc # "error"
        /\ Done =>
            /\ result.ok
            /\ AllSingle
            /\ \A a \in Range(variables), b \in Range(variables) :
                 a # b =>
                    LET ca == Sol[a][1]
                        cb == Sol[b][1]
                    IN /\ RowOf(ca) # RowOf(cb)
                       /\ ColOf(ca) # ColOf(cb)
                       /\ Abs(RowOf(ca) - RowOf(cb)) # Abs(ColOf(ca) - ColOf(cb))

\* a 4-queens search that had to abandon a branch has returned a placement
C3_Witness == IsQueens(4) /\ Done /\ result.ok /\ f_counter >= 1

(***************************************************************************)
(* C4                                                                      *)
(***************************************************************************)
\* C4: three mutually adjacent regions: with three colours the search returns a
\* colouring with the regions pairwise different, with two colours it returns
\* False; neither run ends in an error.
C4_Triangle ==
    variables = MapStates =>
        /\ pc # "error"
        /\ Done /\ IsMap(3) =>
            /\ result.ok
            /\ AllSingle
            /\ \A a \in Range(variables), b \in Range(variables) :
                 a # b => Sol[a][1] # Sol[b][1]
        /\ Done /\ IsMap(2) => ~result.ok

\* the two-colour search has exhausted every branch and returned False
C4_Witness == IsMap(2) /\ Done /\ ~result.ok /\ f_counter >= 1

(***************************************************************************)
(* C5                                                                      *)
(***************************************************************************)
\* C5: when inference returned True, running it again on the resulting
\* assignment with the same initial queue removes no value.
C5_Idempotent ==
    InferenceSucceeded /\ BothWays /\ DeclaredNonEmpty =>
        Contents(inference(heap, Target(Top), initQueue).heap, Target(Top))
            = Contents(heap, Target(Top))

(***************************************************************************)
(* C6                                                                      *)
(***************************************************************************)
\* C6: when inference returned True, every arc that was in the initial queue or
\* was enqueued during the run is arc-consistent.
C6_ArcConsistent ==
    InferenceSucceeded /\ BothWays /\ DeclaredNonEmpty =>
        \A arc \in enqueued : ArcConsistent(heap, Target(Top), arc[1], arc[2])

(***************************************************************************)
(* C7                                                                      *)
(***************************************************************************)
\* C7: with constraints keyed in both directions, backtracking_search returns
\* a solution or False; the program is sequential, so this includes that every
\* inference call made on the way has returned after finitely many revise steps.
C7_Terminates == (Searching /\ BothWays) ~> Done

\* a search that called backtrack several times and abandoned a branch has returned
C7_Witness == Done /\ BothWays /\ b_counter >= 4 /\ f_counter >= 1

(***************************************************************************)
(* C8                                                                      *)
(***************************************************************************)
\* the assignment of every backtrack call on the stack is as it was at entry
CallerUntouched ==
    \A k \in 1..Len(stack) :
        stack[k].kind = "backtrack" =>
            Contents(heap, stack[k].assignment) = stack[k].entry

\* C8: exploring a value never changes the caller's assignment, and the search
\* changes neither self.domains nor the constraints.
C8_BranchIsolation ==
    [][Searching' =>
          /\ CallerUntouched'
          /\ constraints' = constraints
          /\ Contents(heap', domains') = Contents(heap, domains)]_vars

\* a nested call is at a later iteration of its loop, after a branch in which
\* inference pruned the copy was abandoned
C8_Witness ==
    /\ pc = "loop"
    /\ Len(stack) >= 3
    /\ Top.it > 1
    /\ f_counter >= 1

(***************************************************************************)
(* C9                                                                      *)
(***************************************************************************)
\* every list of dictionary a, in heap h, is narrowed with respect to b in g
DictNarrowed(h, a, g, b) ==
    \A v \in DOMAIN a : Narrowed(h[a[v]], g[b[v]])

\* C9: a step never adds a value to a list of an assignment or makes it longer,
\* and the copy explored for a value is narrowed with respect to the caller's
\* assignment, as the first assignment is with respect to self.domains.
C9_Monotone ==
    [][/\ \A k \in 1..Len(stack) :
            k <= Len(stack') =>
               /\ stack'[k].assignment = stack[k].assignment =>
                     DictNarrowed(heap', stack'[k].assignment, heap, stack[k].assignment)
               /\ (stack[k].new_assignment # EmptyDict
                     /\ stack'[k].new_assignment = stack[k].new_assignment) =>
                     DictNarrowed(heap', stack'[k].new_assignment,
                                  heap, stack[k].new_assignment)
       /\ \A k \in 1..Len(stack') :
            /\ stack'[k].kind = "search" =>
                  DictNarrowed(heap', stack'[k].assignment, heap', domains')
            /\ stack'[k].new_assignment # EmptyDict =>
                  DictNarrowed(heap', stack'[k].new_assignment,
                               heap', stack'[k].assignment)]_vars

\* inference has removed a value from the copy of a variable other than the
\* one that was assigned
C9_Witness ==
    /\ pc = "infer"
    /\ Top.kind = "backtrack"
    /\ \E v \in DOMAIN Top.new_assignment :
          /\ v # Top.var
          /\ Len(heap[Top.new_assignment[v]]) < Len(heap[Top.assignment[v]])

(***************************************************************************)
(* C10                                                                     *)
(***************************************************************************)
Keyed(cons, i, j) == j \in DOMAIN cons[i]
Flip(t) == {<<p[2], p[1]>> : p \in t}

\* i and j are unconstrained, or constrained in both directions by mirror images
MirrorOrFree(cons, i, j) ==
    \/ ~Keyed(cons, i, j) /\ ~Keyed(cons, j, i)
    \/ Keyed(cons, i, j) /\ Keyed(cons, j, i) /\ cons[j][i] = Flip(cons[i][j])

\* C10 as stated: after add_all_different_constraint(V), any two distinct
\* variables of V are constrained in both directions and the two tables are
\* mirror images, whatever was installed for the pair before.
C10_AsStated ==
    [][\A vs \in Perms(Range(variables)) :
          (Len(vs) >= 2 /\ add_all_different_constraint(vs)) =>
             \A m \in 1..Len(vs), n \in 1..Len(vs) :
                vs[m] # vs[n] =>
                   /\ Keyed(constraints', vs[m], vs[n])
                   /\ Keyed(constraints', vs[n], vs[m])
                   /\ constraints'[vs[n]][vs[m]] = Flip(constraints'[vs[m]][vs[n]])]_vars

\* C10, amended: after add_all_different_constraint(V), any two distinct
\* variables of V are constrained in both directions; the two tables are mirror
\* images when before the call the pair was unconstrained or constrained by
\* mirror images (as an earlier call of the helper leaves it).
C10_AllDifferentMirror ==
    [][\A vs \in Perms(Range(variables)) :
          (Len(vs) >= 2 /\ add_all_different_constraint(vs)) =>
             \A m \in 1..Len(vs), n \in 1..Len(vs) :
                vs[m] # vs[n] =>
                   /\ Keyed(constraints', vs[m], vs[n])
                   /\ Keyed(constraints', vs[n], vs[m])
                   /\ MirrorOrFree(constraints, vs[m], vs[n]) =>
                         constraints'[vs[n]][vs[m]] = Flip(constraints'[vs[m]][vs[n]])]_vars

\* two variables with several values each are constrained in both directions by
\* the table of unequal pairs
C10_Witness ==
    /\ pc = "build"
    /\ Len(variables) = 2
    /\ Keyed(constraints, variables[1], variables[2])
    /\ Keyed(constraints, variables[2], variables[1])
    /\ constraints[variables[1]][variables[2]]
         = {p \in get_all_possible_pairs(heap[domains[variables[1]]],
                                         heap[domains[variables[2]]]) : p[1] # p[2]}
    /\ constraints[variables[2]][variables[1]]
         = Flip(constraints[variables[1]][variables[2]])
    /\ Cardinality(constraints[variables[1]][variables[2]]) >= 4

(***************************************************************************)
(* C11                                                                     *)
(***************************************************************************)
\* C11: for create_queen_csp(1) the search returns Q0 = cell (0,0), and after the
\* solve both counters the program prints, b_counter and f_counter, are 0.
C11_OneQueenZeroBacktracks ==
    IsQueens(1) /\ Done =>
        /\ result.ok
        /\ Sol = [v \in {"Q0"} |-> <<Cell(0, 0)>>]
        /\ b_counter = 0
        /\ f_counter = 0

(***************************************************************************)
(* C12                                                                     *)
(***************************************************************************)
\* the step of inference on arc (i, j) in which revise removed a value of
\* domain(i) and left it non-empty
RevisedNonEmpty(i, j) ==
    /\ inference_step
    /\ Head(queue) = <<i, j>>
    /\ heap'[Target(Top)[i]] # heap[Target(Top)[i]]
    /\ heap'[Target(Top)[i]] # <<>>

\* C12: when revise(i, j) removed a value and domain(i) is not empty, the arcs
\* appended to the back of the queue are exactly the arcs (k, i) for the
\* neighbours k of i other than j; the arc (j, i) is not appended.
C12_TriggeringArcSkipped ==
    [][\A i \in Range(variables), j \in Range(variables) :
          RevisedNonEmpty(i, j) =>
             queue' = Tail(queue) \o SelectSeq(get_all_neighboring_arcs(i),
                                               LAMBDA nb : nb[1] # j)]_vars

(***************************************************************************)
(* C13                                                                     *)
(***************************************************************************)
\* the values of domain(i) that have a support in domain(j), in order
Supported(h, a, i, j) ==
    SelectSeq(h[a[i]], LAMBDA x : \E n \in 1..Len(h[a[j]]) :
                                     <<x, h[a[j]][n]>> \in constraints[i][j])

\* C13: revise(assignment, i, j) leaves in domain(i) exactly the values that have
\* a support in domain(j), in the same order, changes no other list, and returns
\* True exactly when it removed a value.  (Checked for the call that the next
\* step of inference makes.)
C13_RevisePostcondition ==
    (pc = "infer" /\ queue # <<>> /\ Keyed(constraints, Head(queue)[1], Head(queue)[2])) =>
        LET a == Target(Top)
            i == Head(queue)[1]
            j == Head(queue)[2]
            r == revise(heap, a, i, j)
        IN /\ r.heap[a[i]] = Supported(heap, a, i, j)
           /\ \A id \in DOMAIN heap : id # a[i] => r.heap[id] = heap[id]
           /\ r.revised <=> r.heap[a[i]] # heap[a[i]]

(***************************************************************************)
(* C14                                                                     *)
(***************************************************************************)
\* the variables whose list in dictionary a holds more than one value
Undecided(h, a) == {v \in DOMAIN a : Len(h[a[v]]) > 1}

\* v is the first variable, in iteration order, among those of Undecided whose
\* list is shortest
FirstSmallest(h, a, v) ==
    /\ v \in Undecided(h, a)
    /\ \A w \in Undecided(h, a) :
          /\ Len(h[a[v]]) <= Len(h[a[w]])
          /\ Len(h[a[w]]) = Len(h[a[v]]) => Pos(keyOrder, v) <= Pos(keyOrder, w)

\* C14: the call of backtrack selects no variable exactly when no list holds more
\* than one value, and then returns its assignment unchanged; otherwise it goes on
\* with the first variable among those whose list is shortest of the lists that
\* hold more than one value.
C14_MinimumRemaining ==
    [][backtrack_call =>
          LET a == Target(Top)
          IN IF Undecided(heap, a) = {}
             THEN /\ pc' = "returned"
                  /\ retval' = Returned(a)
                  /\ Contents(heap', a) = Contents(heap, a)
             ELSE /\ pc' = "loop"
                  /\ FirstSmallest(heap, a, stack'[Len(stack')].var)]_vars

(***************************************************************************)
(* C15                                                                     *)
(***************************************************************************)
\* the pairs of domain(i) x domain(j)
ProductOf(i, j) == get_all_possible_pairs(heap[domains[i]], heap[domains[j]])

\* C15: the first add_constraint_one_way(i, j, p1) stores the pairs of
\* domain(i) x domain(j) that satisfy p1; a call with p2 on the table that a call
\* with p1 stored leaves the pairs of the product that satisfy both, and a call
\* on a stored table never adds a pair to it.
C15_SecondCallFilters ==
    [][\A i \in Range(variables), j \in Range(variables), p2 \in Preds :
          add_constraint_one_way(i, j, p2) =>
             /\ ~Keyed(constraints, i, j) =>
                    constraints'[i][j] = {p \in ProductOf(i, j) : Apply(p2, p[1], p[2])}
             /\ Keyed(constraints, i, j) => constraints'[i][j] \subseteq constraints[i][j]
             /\ \A p1 \in Preds :
                    (/\ Keyed(constraints, i, j)
                     /\ constraints[i][j] = {p \in ProductOf(i, j) : Apply(p1, p[1], p[2])}) =>
                        constraints'[i][j] = {p \in ProductOf(i, j) :
                                                 Apply(p1, p[1], p[2]) /\ Apply(p2, p[1], p[2])}]_vars

\* two variables with MaxVal values each, and a table from the first to the
\* second that two calls with contradicting predicates have emptied
C15_Witness ==
    /\ pc = "build"
    /\ Len(variables) = 2
    /\ Len(heap[domains[variables[1]]]) = MaxVal
    /\ Len(heap[domains[variables[2]]]) = MaxVal
    /\ Keyed(constraints, variables[1], variables[2])
    /\ constraints[variables[1]][variables[2]] = {}

(***************************************************************************)
(* C16                                                                     *)
(***************************************************************************)
\* a call of backtrack has just returned a dictionary
SolutionReturned == pc = "returned" /\ retval.ok

\* C16: the values of the chosen variable are tried in the order of its list,
\* one after the other; once a call of backtrack has returned a dictionary, every
\* further step hands that same dictionary, with the same contents, to the next
\* enclosing call, until backtracking_search returns it: no value is tried, no
\* inference runs, and b_counter and f_counter stay as they are.
C16_FirstSolutionWins ==
    [][/\ SolutionReturned =>
             /\ pc' \in {"returned", "done"}
             /\ Len(stack') < Len(stack)
             /\ retval' = retval
             /\ Contents(heap', retval'.assignment) = Contents(heap, retval.assignment)
             /\ b_counter' = b_counter
             /\ f_counter' = f_counter
             /\ pc' = "done" => result' = retval
       /\ backtrack_try =>
             heap'[stack'[Len(stack')].new_assignment[Top.var]]
                = <<Top.entry[Top.var][Top.it]>>
       /\ (Len(stack) > 0 /\ Len(stack') = Len(stack)) =>
             /\ stack'[Len(stack')].var = Top.var
             /\ stack'[Len(stack')].it \in {Top.it, Top.it + 1}]_vars

\* a dictionary found after a branch was abandoned is on its way up through two
\* enclosing calls of backtrack
C16_Witness ==
    /\ SolutionReturned
    /\ Len(stack) >= 3
    /\ f_counter >= 1

(***************************************************************************)
(* C17                                                                     *)
(***************************************************************************)
\* C17: with constraints keyed in both directions and no variable declared with
\* an empty list, the assignment that a call of backtrack hands to a recursive
\* call has fewer lists of more than one value than its own, and no empty list;
\* the calls of backtrack are nested at most one deeper than there are variables.
C17_StrictDescent ==
    [][(backtrack_call /\ Top.kind = "backtrack" /\ BothWays /\ DeclaredNonEmpty) =>
          /\ Cardinality(Undecided(heap, Top.new_assignment))
                < Cardinality(Undecided(heap, Top.assignment))
          /\ \A v \in DOMAIN Top.new_assignment : heap[Top.new_assignment[v]] # <<>>
          /\ Len(stack) <= Len(variables) + 1]_vars

(***************************************************************************)
(* C18                                                                     *)
(***************************************************************************)
\* the number of calls of backtrack that are in their loop
Nested(stk) == Cardinality({k \in 1..Len(stk) : stk[k].kind = "backtrack"})

\* C18: b_counter grows by one at every call of backtrack and at no other step,
\* f_counter by one at every return of False from backtrack and at no other step;
\* f_counter never exceeds b_counter, and their difference is the number of calls
\* of backtrack that have not returned False: the calls in progress while the
\* search runs, the calls from the root to the one that found the dictionary once
\* one is returned, none when backtracking_search returns False.
C18_CounterAccounting ==
    [][/\ f_counter' <= b_counter'
       /\ b_counter' = IF backtrack_call THEN b_counter + 1 ELSE b_counter
       /\ f_counter' = IF backtrack_fail THEN f_counter + 1 ELSE f_counter
       /\ pc' \in {"infer", "inferred", "loop"} =>
             b_counter' - f_counter' = Nested(stack')
       /\ (backtrack_call /\ pc' = "returned") =>
             b_counter' - f_counter' = Nested(stack) + 1
       /\ SolutionReturned => b_counter' - f_counter' = b_counter - f_counter
       /\ (pc' = "done" /\ ~result'.ok) => b_counter' = f_counter'
       /\ (pc' = "done" /\ result'.ok) => b_counter' - f_counter' >= 1]_vars

\* a search has returned a dictionary found three calls deep, after a call of
\* backtrack had returned False
C18_Witness ==
    /\ Done
    /\ result.ok
    /\ f_counter >= 1
    /\ b_counter - f_counter >= 3

(***************************************************************************)
(* C19                                                                     *)
(***************************************************************************)
\* value x for variable v agrees with the values chosen in `partial` under every
\* keyed constraint between v and a chosen variable, in both directions
Agrees(partial, v, x) ==
    \A w \in DOMAIN partial :
        /\ Keyed(constraints, v, w) => <<x, partial[w]>> \in constraints[v][w]
        /\ Keyed(constraints, w, v) => <<partial[w], x>> \in constraints[w][v]

\* the full solutions that extend `partial` with values for the variables of
\* `rest`, taken from the lists of dictionary a
RECURSIVE Extend(_, _, _, _)
Extend(h, a, rest, partial) ==
    IF rest = <<>> THEN {partial}
    ELSE LET v == Head(rest)
             fits == {x \in Range(h[a[v]]) : Agrees(partial, v, x)}
         IN UNION {Extend(h, a, Tail(rest),
                          [w \in (DOMAIN partial) \cup {v} |->
                              IF w = v THEN x ELSE partial[w]]) : x \in fits}

\* the full solutions contained in the lists of dictionary a: one value per
\* variable, every keyed constraint satisfied
Solutions(h, a) == Extend(h, a, variables, EmptyDict)

\* C19: a step of inference removes no value that takes part in a full solution
\* contained in the lists it works on, so the set of those solutions is the same
\* after the step; and backtracking_search returns False only when self.domains
\* contains no full solution.
C19_PruningSound ==
    [][/\ inference_step =>
             Solutions(heap', Target(Top)) = Solutions(heap, Target(Top))
       /\ (pc' = "done" /\ ~result'.ok) => Solutions(heap', domains') = {}]_vars

\* inference has removed a value of a variable other than the assigned one from
\* the copy, and the copy still contains a full solution
C19_Witness ==
    /\ pc = "infer"
    /\ Top.kind = "backtrack"
    /\ Solutions(heap, Top.new_assignment) # {}
    /\ \E v \in DOMAIN Top.new_assignment :
          /\ v # Top.var
          /\ Len(heap[Top.new_assignment[v]]) < Len(heap[Top.assignment[v]])

(***************************************************************************)
(* C20                                                                     *)
(***************************************************************************)
\* C20: when constraint(i, j) is keyed exactly when constraint(j, i) is, every
\* arc (i, j) put in a queue of inference has a constraint(i, j) entry and no
\* step ends in an error; a step that ends in an error is a step of inference
\* whose revise looked up an entry that does not exist.  (That such a step is
\* reached with a constraint installed in one direction only is C20_Witness.)
C20_ArcsHaveTables ==
    [][/\ BothWays' =>
             /\ pc' # "error"
             /\ \A arc \in enqueued' \cup Range(queue') :
                   Keyed(constraints', arc[1], arc[2])
       /\ pc' = "error" =>
             /\ inference_step
             /\ ~Keyed(constraints, Head(queue)[1], Head(queue)[2])
             /\ Keyed(constraints, Head(queue)[2], Head(queue)[1])]_vars

\* with a constraint installed from the first variable to the second only, the
\* solve has ended in an error
C20_Witness ==
    /\ pc = "error"
    /\ Len(variables) = 2
    /\ Keyed(constraints, variables[1], variables[2])
    /\ ~Keyed(constraints, variables[2], variables[1])
=============================================================================
